---- MODULE Spec2Model ----
(***************************************************************************)
(* Invoice data model with construction-time validation                    *)
(* (backend/app/schemas/invoice_schema.py) and the error taxonomy with its *)
(* central translation (backend/app/utils/exceptions.py).                  *)
(*                                                                         *)
(* Representation.                                                         *)
(*   - A mapping (Python dict, or the keyword arguments of a constructor)  *)
(*     is a TLA+ function whose domain is the set of keys present.         *)
(*   - None is <<>> and a present value of an Optional field is <<v>>.     *)
(*   - A Decimal amount of money is an integer number of cents (exponent   *)
(*     -2); a float quantity is an integer number of tenths, so that       *)
(*     Decimal(str(quantity)) has exponent -1 and quantity * unit_price    *)
(*     has exponent -3 (mills).  Differences are compared in mills.  The   *)
(*     values used stay far below the 28 significant digits of Python's    *)
(*     default Decimal context, where its arithmetic is exact.             *)
(*   - A date is [type |-> "date", ordinal |-> day number]; a datetime is  *)
(*     [type |-> "datetime", day |-> .., sec |-> ..]; an ISO-8601 text     *)
(*     would be [type |-> "str", ...].                                     *)
(***************************************************************************)
EXTENDS Integers, Sequences, FiniteSets, TLC

VARIABLES
    li_input,   \* keyword arguments handed to InvoiceLineItem(...)
    li_pc,      \* "new" before the constructor ran, "done" after, "idle" when unused
    li_result,  \* outcome of InvoiceLineItem(...): an instance or the raised error
    exc_call,   \* the error being raised: its class and constructor arguments
    exc_pc,     \* "call", "raised", "handled"; "idle" when unused
    exc,        \* the exception object once constructed
    exc_env,    \* the envelope handle_exception returned for it
    clock,      \* the system clock: [day, sec]
    input,      \* per construction: the mapping handed to Invoice(...)
    pc,         \* per construction: "new", "date2", "rest", "done", "failed", "reported"
    reads,      \* per construction: the days validate_date read from the clock, in order
    date_res,   \* per construction: what validate_date returned or raised
    stamp,      \* per construction: the datetime its default_factory read, if it ran
    inst,       \* per construction: the Invoice instance built
    raised,     \* per construction: the error the constructor raised
    envelope,   \* per construction: handle_exception's envelope for that error
    trees,      \* per construction: the trees to_dict() returned, in order
    rebuilt,    \* per construction: how often the instance was rebuilt from its tree
    assigned,   \* per construction: how many attribute assignments the instance took
    heap,       \* the dict objects reachable from a shared error, by identity
    caller_pc,  \* per caller of handle_exception: "ready", "holding"
    caller_env, \* per caller: the envelope object it received
    caller_ret, \* per caller: the envelope's value at the moment it was returned
    edits       \* per caller: how many changes it made to its envelope

li_vars == <<li_input, li_pc, li_result>>
exc_vars == <<exc_call, exc_pc, exc, exc_env>>
inv_vars == <<clock, input, pc, reads, date_res, stamp, inst, raised, envelope,
              trees, rebuilt, assigned>>
caller_vars == <<heap, caller_pc, caller_env, caller_ret, edits>>

vars == <<li_input, li_pc, li_result, exc_call, exc_pc, exc, exc_env,
          clock, input, pc, reads, date_res, stamp, inst, raised, envelope,
          trees, rebuilt, assigned,
          heap, caller_pc, caller_env, caller_ret, edits>>

----------------------------------------------------------------------------
(* Bounds of the explored inputs *)

\* largest small quantity explored, in tenths (0 is the out-of-range value)
MaxQty == 3
\* largest small unit price explored, in cents (-1 .. MaxPrice)
MaxPrice == 2
\* line_total / total_amount are explored up to this many cents off the rounded expected value
MaxDelta == 2
\* timeouts and retry counts explored: 0 .. MaxSeconds, and 30
MaxSeconds == 2
\* midnights the clock may pass
MaxDays == 1
\* seconds the clock may advance within a day
MaxSecs == 1
\* times an instance is rebuilt from its serialized tree
MaxRebuilds == 1
\* attribute assignments an instance takes
MaxAssigns == 1

(* Program constants *)

\* Decimal("0.01") in validate_line_total, in mills
LineTolerance == 10
\* Decimal("0.01") in validate_total, in mills
TotalTolerance == 10
\* the days an invoice_date may lie ahead of today
MaxFutureDays == 30

----------------------------------------------------------------------------
(* Python values *)

None == <<>>
Some(v) == <<v>>

Abs(n) == IF n < 0 THEN -n ELSE n

\* a Decimal with exponent -2 (cents) rescaled to exponent -3 (mills)
Mills(cents) == cents * 10

\* dict.get(key, default)
Get(d, key, default) == IF key \in DOMAIN d THEN d[key] ELSE default

\* str(Decimal): coefficient and exponent
DecStr(coef, exp) == ToString(coef) \o "e-" \o ToString(exp)

\* the outcome of a validator: the value it returns, or the error it raises
Returns(v) == [ok |-> TRUE, v |-> v]
Raises(type, msg) == [ok |-> FALSE, type |-> type, msg |-> msg]

----------------------------------------------------------------------------
(* Error taxonomy: exceptions.py *)

\* An exception object: its class (module, name), the arguments Exception.__init__
\* received, and the attributes its constructor set.
Exc(module, name, args, attrs) ==
    [module |-> module, name |-> name, args |-> args, attrs |-> attrs]

\* the classes defined in exceptions.py; all derive from InvoiceAIException
TaxonomyModule == "app.utils.exceptions"

\* truthiness of a string / of a dict or list, as `x or default` tests it
TruthyStr(s) == s # ""
TruthyColl(c) == DOMAIN c # {}

InvoiceAIException_init_swapped(name, message, error_code, details) ==
    Exc(TaxonomyModule, name, <<message>>,
        [message |-> message,
         error_code |-> "GENERAL_ERROR",
         details |-> IF details # None /\ TruthyColl(details[1])
                     THEN details[1] ELSE <<>>])

\* InvoiceAIException.__init__, run by every subclass through super().__init__;
\* error_code and details are Optional (None or <<value>>)
InvoiceAIException_init(name, message, error_code, details) ==
    Exc(TaxonomyModule, name, <<message>>,
        [message |-> message,
         error_code |-> IF error_code # None /\ TruthyStr(error_code[1])
                        THEN error_code[1] ELSE "GENERAL_ERROR",
         details |-> IF details # None /\ TruthyColl(details[1])
                     THEN details[1] ELSE <<>>])

InvoiceAIException(message, error_code, details) ==
    InvoiceAIException_init("InvoiceAIException", message, error_code, details)

\* InvoiceAIException.to_dict
to_dict(e) ==
    [error |-> e.attrs.error_code,
     message |-> e.attrs.message,
     details |-> e.attrs.details]

\* f"{x:.2f}" of a number given in hundredths
Fmt2(h) ==
    ToString(h \div 100) \o "." \o ToString((h % 100) \div 10) \o ToString(h % 10)

FileProcessingError(message, filename) ==
    InvoiceAIException_init("FileProcessingError", message,
        Some("FILE_PROCESSING_ERROR"), Some([filename |-> filename]))

UnsupportedFileTypeError(file_type, supported_types) ==
    InvoiceAIException_init("UnsupportedFileTypeError",
        "File type '" \o file_type \o "' is not supported",
        Some("UNSUPPORTED_FILE_TYPE"),
        Some([file_type |-> file_type, supported_types |-> supported_types]))

OCRError(message, image_path) ==
    InvoiceAIException_init("OCRError", message,
        Some("OCR_ERROR"), Some([image_path |-> image_path]))

EmptyFileError(filename) ==
    InvoiceAIException_init("EmptyFileError",
        "File '" \o filename \o "' is empty or contains no readable content",
        Some("EMPTY_FILE"), Some([filename |-> filename]))

LLMExtractionError(message, model) ==
    InvoiceAIException_init("LLMExtractionError", message,
        Some("LLM_EXTRACTION_ERROR"), Some([model |-> model]))

LLMTimeoutError(timeout_seconds) ==
    InvoiceAIException_init("LLMTimeoutError",
        "LLM request timed out after " \o ToString(timeout_seconds) \o " seconds",
        Some("LLM_TIMEOUT"), Some([timeout_seconds |-> timeout_seconds]))

LLMRateLimitError(retry_after) ==
    InvoiceAIException_init("LLMRateLimitError", "LLM rate limit exceeded",
        Some("LLM_RATE_LIMIT"), Some([retry_after_seconds |-> retry_after]))

ValidationError(message, field, validation_errors) ==
    InvoiceAIException_init("ValidationError", message,
        Some("VALIDATION_ERROR"),
        Some([field |-> field,
              validation_errors |->
                  IF validation_errors # None /\ TruthyColl(validation_errors[1])
                  THEN validation_errors[1] ELSE <<>>]))

LowConfidenceError(confidence_score, threshold) ==
    InvoiceAIException_init("LowConfidenceError",
        "Extraction confidence (" \o Fmt2(confidence_score)
        \o ") below threshold (" \o Fmt2(threshold) \o ")",
        Some("LOW_CONFIDENCE"),
        Some([confidence_score |-> confidence_score, threshold |-> threshold]))

ERPConnectionError(message, erp_system) ==
    InvoiceAIException_init("ERPConnectionError", message,
        Some("ERP_CONNECTION_ERROR"), Some([erp_system |-> erp_system]))

ERPAuthenticationError(erp_system) ==
    InvoiceAIException_init("ERPAuthenticationError",
        "Authentication failed for " \o erp_system,
        Some("ERP_AUTH_ERROR"), Some([erp_system |-> erp_system]))

ERPDataFormatError(message, expected_format) ==
    InvoiceAIException_init("ERPDataFormatError", message,
        Some("ERP_DATA_FORMAT_ERROR"), Some([expected_format |-> expected_format]))

ERPTimeoutError(erp_system, timeout_seconds) ==
    InvoiceAIException_init("ERPTimeoutError",
        "Connection to " \o erp_system \o " timed out after "
        \o ToString(timeout_seconds) \o " seconds",
        Some("ERP_TIMEOUT"),
        Some([erp_system |-> erp_system, timeout_seconds |-> timeout_seconds]))

DuplicateInvoiceError(invoice_number, existing_id) ==
    InvoiceAIException_init("DuplicateInvoiceError",
        "Invoice '" \o invoice_number \o "' already exists",
        Some("DUPLICATE_INVOICE"),
        Some([invoice_number |-> invoice_number, existing_id |-> existing_id]))

CustomerNotFoundError(customer_id) ==
    InvoiceAIException_init("CustomerNotFoundError",
        "Customer '" \o customer_id \o "' not found",
        Some("CUSTOMER_NOT_FOUND"), Some([customer_id |-> customer_id]))

ConfigurationError(message, config_file) ==
    InvoiceAIException_init("ConfigurationError", message,
        Some("CONFIGURATION_ERROR"), Some([config_file |-> config_file]))

VendorMappingError(vendor_name, customer_id) ==
    InvoiceAIException_init("VendorMappingError",
        "Vendor '" \o vendor_name \o "' not found in mapping for customer '"
        \o customer_id \o "'",
        Some("VENDOR_MAPPING_ERROR"),
        Some([vendor_name |-> vendor_name, customer_id |-> customer_id]))

AuthenticationError(message) ==
    InvoiceAIException_init("AuthenticationError", message,
        Some("AUTHENTICATION_ERROR"), None)

AuthorizationError(message, required_permission) ==
    InvoiceAIException_init("AuthorizationError", message,
        Some("AUTHORIZATION_ERROR"),
        Some([required_permission |-> required_permission]))

MaxRetriesExceededError(operation, max_retries) ==
    InvoiceAIException_init("MaxRetriesExceededError",
        "Operation '" \o operation \o "' failed after "
        \o ToString(max_retries) \o " retries",
        Some("MAX_RETRIES_EXCEEDED"),
        Some([operation |-> operation, max_retries |-> max_retries]))

\* isinstance(exception, InvoiceAIException): every class of exceptions.py derives
\* from it, no class of another module does
IsInvoiceAIException(e) == e.module = TaxonomyModule

\* str(exception) of an exception that is not of the taxonomy: BaseException.__str__
\* over args (KeyError shows the repr of its one argument); pydantic's
\* ValidationError prints a count of its errors and the model's name
Str(e) ==
    IF e.module = "pydantic" /\ e.name = "ValidationError"
    THEN ToString(Cardinality(e.attrs.errors)) \o " validation error(s) for "
         \o e.attrs.title
    ELSE IF Len(e.args) = 0 THEN ""
    ELSE IF Len(e.args) = 1
         THEN (IF e.name = "KeyError" THEN "'" \o e.args[1] \o "'" ELSE e.args[1])
    ELSE "('" \o e.args[1] \o "', '" \o e.args[2] \o "')"

\* type(exception).__name__
TypeName(e) == e.name

handle_exception_swapped(e) ==
    IF IsInvoiceAIException(e)
    THEN to_dict(e)
    ELSE [error |-> "INTERNAL_ERROR",
          message |-> TypeName(e),
          details |-> [exception_type |-> Str(e)]]

\* handle_exception
handle_exception(e) ==
    IF IsInvoiceAIException(e)
    THEN to_dict(e)
    ELSE [error |-> "INTERNAL_ERROR",
          message |-> Str(e),
          details |-> [exception_type |-> TypeName(e)]]

\* the error pydantic raises when a model's validation collected errors
PydanticValidationError(title, errors) ==
    Exc("pydantic", "ValidationError", <<>>, [title |-> title, errors |-> errors])

----------------------------------------------------------------------------
(* InvoiceLineItem *)

\* fields declared before line_total, which a validator of line_total sees in `values`
LI_Before == {"description", "quantity", "unit_price", "unit",
              "discount", "tax_rate", "tax_amount"}
LI_Required == {"description", "quantity", "unit_price", "line_total"}
LI_Optional == {"unit", "item_code"}
LI_Defaults == [discount |-> 0, tax_rate |-> 0, tax_amount |-> 0]
LI_Fields == LI_Required \cup LI_Optional \cup DOMAIN LI_Defaults

\* Field(..., gt=0) on quantity, Field(..., ge=0) on discount, tax_rate, tax_amount
LI_RangeOK(f, v) ==
    CASE f = "quantity" -> v > 0
      [] f \in {"discount", "tax_rate", "tax_amount"} -> v >= 0
      [] OTHER -> TRUE

\* the value a field takes: the given one, the default, or None
LI_Value(in, f) ==
    IF f \in LI_Optional THEN (IF f \in DOMAIN in THEN Some(in[f]) ELSE None)
    ELSE IF f \in DOMAIN in THEN in[f]
    ELSE LI_Defaults[f]

\* a field passes its own declaration: present if required, inside its range
LI_FieldOK(in, f) ==
    /\ f \in LI_Required => f \in DOMAIN in
    /\ (f \in DOMAIN in /\ f \notin LI_Optional) => LI_RangeOK(f, in[f])

\* `values`: the fields validated so far, the failed ones left out
LI_Values(in) ==
    [f \in {g \in LI_Before : LI_FieldOK(in, g)} |-> LI_Value(in, f)]

validate_line_total_ge(v, values) ==
    IF "quantity" \in DOMAIN values /\ "unit_price" \in DOMAIN values
    THEN LET expected == values["quantity"] * values["unit_price"]
                         - Mills(Get(values, "discount", 0))
                         + Mills(Get(values, "tax_amount", 0))
         IN  IF Abs(expected - Mills(v)) >= LineTolerance
             THEN Raises("ValueError",
                         "Line total mismatch: expected " \o DecStr(expected, 3)
                         \o ", got " \o DecStr(v, 2))
             ELSE Returns(v)
    ELSE Returns(v)

\* @validator("line_total")
validate_line_total(v, values) ==
    IF "quantity" \in DOMAIN values /\ "unit_price" \in DOMAIN values
    THEN LET expected == values["quantity"] * values["unit_price"]
                         - Mills(Get(values, "discount", 0))
                         + Mills(Get(values, "tax_amount", 0))
         IN  IF Abs(expected - Mills(v)) > LineTolerance
             THEN Raises("ValueError",
                         "Line total mismatch: expected " \o DecStr(expected, 3)
                         \o ", got " \o DecStr(v, 2))
             ELSE Returns(v)
    ELSE Returns(v)

\* the errors pydantic collects while validating the fields in order
LI_Errors(in) ==
    {[loc |-> f, msg |-> "field constraint"] : f \in {g \in LI_Fields : ~LI_FieldOK(in, g)}}
    \cup (IF "line_total" \in DOMAIN in
             /\ ~validate_line_total(in["line_total"], LI_Values(in)).ok
          THEN {[loc |-> "line_total",
                 msg |-> validate_line_total(in["line_total"], LI_Values(in)).msg]}
          ELSE {})

\* InvoiceLineItem built from in: the instance, or pydantic's ValidationError carrying the errors
NewInvoiceLineItem(in) ==
    IF LI_Errors(in) = {}
    THEN [ok |-> TRUE, fields |-> [f \in LI_Fields |-> LI_Value(in, f)]]
    ELSE [ok |-> FALSE, errors |-> LI_Errors(in)]

----------------------------------------------------------------------------
(* The clock *)

\* date.today()
date_today(clk) == [type |-> "date", ordinal |-> clk.day]

\* datetime.now()
datetime_now(clk) == [type |-> "datetime", day |-> clk.day, sec |-> clk.sec]

----------------------------------------------------------------------------
(* Enumerations and the value records of an invoice *)

InvoiceType == {"standard", "credit_note", "debit_note", "proforma"}
Currency == {"SAR", "USD", "EUR", "AED", "EGP"}
Language == {"ar", "en", "fr", "mixed"}

\* an Enum member of class cls, and the plain str that use_enum_values stores
Member(cls, value) == [type |-> cls, value |-> value]
PlainStr(value) == [type |-> "str", value |-> value]

\* validation of an enum field under use_enum_values = True: a member or its value
\* is accepted and stored as the value
EnumOK(raw, values) == raw.value \in values
EnumValidated(raw) == PlainStr(raw.value)

\* model.dict(exclude_none=True) on one level: keys holding None are left out
ExcludeNone(fields, optional) ==
    [f \in {g \in DOMAIN fields : ~(g \in optional /\ fields[g] = None)} |->
        IF f \in optional THEN fields[f][1] ELSE fields[f]]

\* VendorInfo: name required; tax_id stands for its eleven Optional[str] fields
VI_Optional == {"tax_id"}
VendorInfo_OK(in) == "name" \in DOMAIN in
NewVendorInfo(in) ==
    [name |-> in["name"],
     tax_id |-> IF "tax_id" \in DOMAIN in THEN Some(in["tax_id"]) ELSE None]

\* CustomerInfo: name required; tax_id stands for its six Optional[str] fields
CI_Optional == {"tax_id"}
CustomerInfo_OK(in) == "name" \in DOMAIN in
NewCustomerInfo(in) ==
    [name |-> in["name"],
     tax_id |-> IF "tax_id" \in DOMAIN in THEN Some(in["tax_id"]) ELSE None]

\* TaxBreakdown: all four fields required, the three amounts ge=0
TaxBreakdown_OK(in) ==
    /\ {"tax_type", "tax_rate", "taxable_amount", "tax_amount"} \subseteq DOMAIN in
    /\ in["tax_rate"] >= 0 /\ in["taxable_amount"] >= 0 /\ in["tax_amount"] >= 0
NewTaxBreakdown(in) ==
    [f \in {"tax_type", "tax_rate", "taxable_amount", "tax_amount"} |-> in[f]]

\* PaymentInfo: payment_terms stands for its six Optional[str] fields
PI_Optional == {"payment_terms", "due_date"}
NewPaymentInfo(in) ==
    [f \in PI_Optional |-> IF f \in DOMAIN in THEN Some(in[f]) ELSE None]

----------------------------------------------------------------------------
(* Invoice *)

\* notes stands for po_number, reference_number, notes, qr_code and source_file
Inv_Required == {"invoice_number", "invoice_date", "vendor", "line_items",
                 "subtotal", "total_amount"}
Inv_Optional == {"customer", "tax_breakdown", "payment_info", "notes", "page_count"}
Inv_Enums == [invoice_type |-> InvoiceType, currency |-> Currency,
              language_detected |-> Language]
Inv_Defaults ==
    [invoice_type |-> Member("InvoiceType", "standard"),
     currency |-> Member("Currency", "SAR"),
     language_detected |-> Member("Language", "ar"),
     total_discount |-> 0,
     total_tax |-> 0,
     confidence_score |-> 0]
Inv_Fields == Inv_Required \cup Inv_Optional \cup DOMAIN Inv_Defaults
              \cup {"extraction_timestamp"}
\* fields declared before total_amount that validate_total reads from `values`
Inv_BeforeTotal == {"subtotal", "total_discount", "total_tax"}

\* a given field passes its own declaration (type and range), validators aside;
\* confidence_score is in hundredths
Inv_GivenOK(in, f) ==
    CASE f \in DOMAIN Inv_Enums -> EnumOK(in[f], Inv_Enums[f])
      [] f = "vendor" -> VendorInfo_OK(in[f])
      [] f = "customer" -> CustomerInfo_OK(in[f])
      [] f = "line_items" ->
            /\ Len(in[f]) >= 1
            /\ \A i \in DOMAIN in[f] : NewInvoiceLineItem(in[f][i]).ok
      [] f \in {"subtotal", "total_discount", "total_tax", "total_amount"} -> in[f] >= 0
      [] f = "tax_breakdown" -> \A i \in DOMAIN in[f] : TaxBreakdown_OK(in[f][i])
      [] f = "confidence_score" -> in[f] >= 0 /\ in[f] <= 100
      [] OTHER -> TRUE

Inv_FieldOK(in, f) ==
    /\ f \in Inv_Required => f \in DOMAIN in
    /\ f \in DOMAIN in => Inv_GivenOK(in, f)

\* the validated value of a given field
Inv_GivenValue(in, f) ==
    CASE f \in DOMAIN Inv_Enums -> EnumValidated(in[f])
      [] f = "vendor" -> NewVendorInfo(in[f])
      [] f = "customer" -> Some(NewCustomerInfo(in[f]))
      [] f = "line_items" -> [i \in DOMAIN in[f] |-> NewInvoiceLineItem(in[f][i]).fields]
      [] f = "tax_breakdown" -> Some([i \in DOMAIN in[f] |-> NewTaxBreakdown(in[f][i])])
      [] f = "payment_info" -> Some(NewPaymentInfo(in[f]))
      [] f \in Inv_Optional -> Some(in[f])
      [] OTHER -> in[f]

\* Field(default_factory=datetime.now): the factory runs only when the field is not given
extraction_timestamp_always(in, clk) == datetime_now(clk)

extraction_timestamp(in, clk) ==
    IF "extraction_timestamp" \in DOMAIN in
    THEN in["extraction_timestamp"]
    ELSE datetime_now(clk)

\* the value a field of the instance takes; defaults are stored unvalidated
Inv_Value(in, f, clk) ==
    IF f = "extraction_timestamp" THEN extraction_timestamp(in, clk)
    ELSE IF f \in DOMAIN in THEN Inv_GivenValue(in, f)
    ELSE IF f \in Inv_Optional THEN None
    ELSE Inv_Defaults[f]

\* `values` as validate_total sees it
Inv_Values(in) ==
    [f \in {g \in Inv_BeforeTotal : Inv_FieldOK(in, g)} |->
        IF f \in DOMAIN in THEN in[f] ELSE Inv_Defaults[f]]

validate_total_ge(v, values) ==
    IF "subtotal" \in DOMAIN values /\ "total_tax" \in DOMAIN values
       /\ "total_discount" \in DOMAIN values
    THEN LET expected == values["subtotal"] - values["total_discount"] + values["total_tax"]
         IN  IF Mills(Abs(expected - v)) >= TotalTolerance
             THEN Raises("ValueError",
                         "Total amount mismatch: expected " \o DecStr(expected, 2)
                         \o ", got " \o DecStr(v, 2))
             ELSE Returns(v)
    ELSE Returns(v)

\* @validator("total_amount")
validate_total(v, values) ==
    IF "subtotal" \in DOMAIN values /\ "total_tax" \in DOMAIN values
       /\ "total_discount" \in DOMAIN values
    THEN LET expected == values["subtotal"] - values["total_discount"] + values["total_tax"]
         IN  IF Mills(Abs(expected - v)) > TotalTolerance
             THEN Raises("ValueError",
                         "Total amount mismatch: expected " \o DecStr(expected, 2)
                         \o ", got " \o DecStr(v, 2))
             ELSE Returns(v)
    ELSE Returns(v)

\* validate_date, line 218: v > date.today()
IsFuture(v, clk) == v.ordinal > date_today(clk).ordinal

DaysAhead_datetime(v, clk) == v.ordinal - clk.day - (IF clk.sec > 0 THEN 1 ELSE 0)

\* validate_date, line 219: (v - date.today()).days
DaysAhead(v, clk) == v.ordinal - date_today(clk).ordinal

\* validate_date, lines 219-220, given that line 218 found v in the future
validate_date_far(v, clk) ==
    IF DaysAhead(v, clk) > MaxFutureDays
    THEN Raises("ValueError", "Invoice date " \o ToString(v.ordinal)
                              \o " is too far in the future")
    ELSE Returns(v)

\* the errors of every field but invoice_date, whose validator reads the clock
Inv_Errors(in) ==
    {[loc |-> f, msg |-> "field constraint"] :
        f \in {g \in Inv_Fields \ {"invoice_date", "extraction_timestamp"} :
                  ~Inv_FieldOK(in, g)}}
    \cup (IF "total_amount" \in DOMAIN in /\ Inv_FieldOK(in, "total_amount")
             /\ ~validate_total(in["total_amount"], Inv_Values(in)).ok
          THEN {[loc |-> "total_amount",
                 msg |-> validate_total(in["total_amount"], Inv_Values(in)).msg]}
          ELSE {})

\* the Invoice constructor on in, once validate_date returned date_result: the instance, or
\* pydantic's ValidationError carrying every error collected
NewInvoice(in, date_result, clk) ==
    LET errors == Inv_Errors(in)
                  \cup (IF date_result.ok THEN {}
                        ELSE {[loc |-> "invoice_date", msg |-> date_result.msg]})
    IN  IF errors = {}
        THEN [ok |-> TRUE, fields |-> [f \in Inv_Fields |-> Inv_Value(in, f, clk)]]
        ELSE [ok |-> FALSE, error |-> PydanticValidationError("Invoice", errors)]

\* Invoice.to_dict: self.dict(exclude_none=True), nested models dumped alike;
\* Config.json_encoders is not consulted by dict()
Invoice_to_dict(fields) ==
    LET top == ExcludeNone(fields, Inv_Optional)
    IN  [f \in DOMAIN top |->
            CASE f = "vendor" -> ExcludeNone(top[f], VI_Optional)
              [] f = "customer" -> ExcludeNone(top[f], CI_Optional)
              [] f = "line_items" ->
                    [i \in DOMAIN top[f] |-> ExcludeNone(top[f][i], LI_Optional)]
              [] f = "payment_info" -> ExcludeNone(top[f], PI_Optional)
              [] OTHER -> top[f]]

----------------------------------------------------------------------------
(* Construction of one line item from bounded inputs *)

LI_Quantities == (0 .. MaxQty) \cup {20}
LI_Prices == (-1 .. MaxPrice) \cup {10000}
LI_Discounts == -1 .. 1
LI_Taxes == {-1, 0, 3000}
LI_Deltas == (-MaxDelta .. MaxDelta) \cup {500}

\* the part of the keyword arguments that may be left out
LI_OptionalParts ==
    { d @@ t : d \in {<<>>} \cup {[discount |-> x] : x \in LI_Discounts},
               t \in {<<>>} \cup {[tax_amount |-> x] : x \in LI_Taxes} }

\* quantity * unit_price - discount + tax_amount, in mills, straight from the arguments
LI_ExpectedMills(in) ==
    in["quantity"] * in["unit_price"]
    - Mills(Get(in, "discount", 0)) + Mills(Get(in, "tax_amount", 0))

LI_Inputs ==
    { base @@ [line_total |-> (LI_ExpectedMills(base) \div 10) + dl] :
        base \in { [description |-> "item", quantity |-> q, unit_price |-> p] @@ o :
                     q \in LI_Quantities, p \in LI_Prices, o \in LI_OptionalParts },
        dl \in LI_Deltas }

LI_Init ==
    /\ li_input \in LI_Inputs
    /\ li_pc = "new"
    /\ li_result = None

ConstructLineItem ==
    /\ li_pc = "new"
    /\ li_result' = Some(NewInvoiceLineItem(li_input))
    /\ li_pc' = "done"
    /\ UNCHANGED <<li_input, exc_vars, inv_vars, caller_vars>>

LI_Idle ==
    /\ li_input = <<>>
    /\ li_pc = "idle"
    /\ li_result = None

----------------------------------------------------------------------------
(* Raising one error and translating it *)

ExcMessages == {"boom", ""}
ExcOptStrings == {None, Some("x")}
ExcStrings == {"x", "sap"}
ExcSeconds == (0 .. MaxSeconds) \cup {30}
ExcScores == {0, 45, 100}

Call(cls, args) == [cls |-> cls, args |-> args]

\* the constructor calls explored: every class of exceptions.py, each optional
\* argument given and omitted
Exc_Calls(c) ==
    \/ \E m \in ExcMessages, f \in ExcOptStrings :
          c = Call("FileProcessingError", [message |-> m, filename |-> f])
    \/ \E st \in {<<>>, <<"pdf", "png">>} :
          c = Call("UnsupportedFileTypeError", [file_type |-> "exe", supported_types |-> st])
    \/ \E m \in ExcMessages, f \in ExcOptStrings :
          c = Call("OCRError", [message |-> m, image_path |-> f])
    \/ \E f \in ExcStrings :
          c = Call("EmptyFileError", [filename |-> f])
    \/ \E m \in ExcMessages, f \in ExcOptStrings :
          c = Call("LLMExtractionError", [message |-> m, model |-> f])
    \/ \E t \in ExcSeconds :
          c = Call("LLMTimeoutError", [timeout_seconds |-> t])
    \/ \E r \in {None} \cup {Some(t) : t \in ExcSeconds} :
          c = Call("LLMRateLimitError", [retry_after |-> r])
    \/ \E m \in ExcMessages, f \in ExcOptStrings,
          ve \in {None, Some(<<>>), Some(<<"e1">>)} :
          c = Call("ValidationError", [message |-> m, field |-> f, validation_errors |-> ve])
    \/ \E sc \in ExcScores, th \in ExcScores :
          c = Call("LowConfidenceError", [confidence_score |-> sc, threshold |-> th])
    \/ \E m \in ExcMessages, e \in ExcStrings :
          c = Call("ERPConnectionError", [message |-> m, erp_system |-> e])
    \/ \E e \in ExcStrings :
          c = Call("ERPAuthenticationError", [erp_system |-> e])
    \/ \E m \in ExcMessages, f \in ExcOptStrings :
          c = Call("ERPDataFormatError", [message |-> m, expected_format |-> f])
    \/ \E e \in ExcStrings, t \in ExcSeconds :
          c = Call("ERPTimeoutError", [erp_system |-> e, timeout_seconds |-> t])
    \/ \E n \in ExcStrings, f \in ExcOptStrings :
          c = Call("DuplicateInvoiceError", [invoice_number |-> n, existing_id |-> f])
    \/ \E n \in ExcStrings :
          c = Call("CustomerNotFoundError", [customer_id |-> n])
    \/ \E m \in ExcMessages, f \in ExcOptStrings :
          c = Call("ConfigurationError", [message |-> m, config_file |-> f])
    \/ \E v \in ExcStrings, n \in ExcStrings :
          c = Call("VendorMappingError", [vendor_name |-> v, customer_id |-> n])
    \/ \E m \in ExcMessages \cup {"Authentication failed"} :
          c = Call("AuthenticationError", [message |-> m])
    \/ \E m \in ExcMessages \cup {"Insufficient permissions"}, f \in ExcOptStrings :
          c = Call("AuthorizationError", [message |-> m, required_permission |-> f])
    \/ \E o \in ExcStrings, t \in ExcSeconds :
          c = Call("MaxRetriesExceededError", [operation |-> o, max_retries |-> t])
    \/ \E m \in ExcMessages, ec \in {None, Some(""), Some("CUSTOM")},
          d \in {None, Some(<<>>), Some([k |-> "v"])} :
          c = Call("InvoiceAIException", [message |-> m, error_code |-> ec, details |-> d])
    \/ \E n \in {"AttributeError", "KeyError", "ValueError", "TimeoutError"},
          a \in {<<>>, <<"x">>, <<"x", "y">>} :
          c = Call("builtins." \o n, [name |-> n, args |-> a])
    \/ \E n \in 1 .. 2 :
          c = Call("pydantic.ValidationError",
                   [title |-> "Invoice",
                    errors |-> {[loc |-> "f" \o ToString(i), msg |-> "m"] : i \in 1 .. n}])

\* the exception object a constructor call builds
Construct(c) ==
    LET a == c.args IN
    CASE c.cls = "FileProcessingError" -> FileProcessingError(a.message, a.filename)
      [] c.cls = "UnsupportedFileTypeError" ->
            UnsupportedFileTypeError(a.file_type, a.supported_types)
      [] c.cls = "OCRError" -> OCRError(a.message, a.image_path)
      [] c.cls = "EmptyFileError" -> EmptyFileError(a.filename)
      [] c.cls = "LLMExtractionError" -> LLMExtractionError(a.message, a.model)
      [] c.cls = "LLMTimeoutError" -> LLMTimeoutError(a.timeout_seconds)
      [] c.cls = "LLMRateLimitError" -> LLMRateLimitError(a.retry_after)
      [] c.cls = "ValidationError" ->
            ValidationError(a.message, a.field, a.validation_errors)
      [] c.cls = "LowConfidenceError" -> LowConfidenceError(a.confidence_score, a.threshold)
      [] c.cls = "ERPConnectionError" -> ERPConnectionError(a.message, a.erp_system)
      [] c.cls = "ERPAuthenticationError" -> ERPAuthenticationError(a.erp_system)
      [] c.cls = "ERPDataFormatError" -> ERPDataFormatError(a.message, a.expected_format)
      [] c.cls = "ERPTimeoutError" -> ERPTimeoutError(a.erp_system, a.timeout_seconds)
      [] c.cls = "DuplicateInvoiceError" ->
            DuplicateInvoiceError(a.invoice_number, a.existing_id)
      [] c.cls = "CustomerNotFoundError" -> CustomerNotFoundError(a.customer_id)
      [] c.cls = "ConfigurationError" -> ConfigurationError(a.message, a.config_file)
      [] c.cls = "VendorMappingError" -> VendorMappingError(a.vendor_name, a.customer_id)
      [] c.cls = "AuthenticationError" -> AuthenticationError(a.message)
      [] c.cls = "AuthorizationError" -> AuthorizationError(a.message, a.required_permission)
      [] c.cls = "MaxRetriesExceededError" ->
            MaxRetriesExceededError(a.operation, a.max_retries)
      [] c.cls = "InvoiceAIException" ->
            InvoiceAIException(a.message, a.error_code, a.details)
      [] c.cls = "pydantic.ValidationError" -> PydanticValidationError(a.title, a.errors)
      [] OTHER -> Exc("builtins", a.name, a.args, <<>>)

Exc_Init ==
    /\ Exc_Calls(exc_call)
    /\ exc_pc = "call"
    /\ exc = None
    /\ exc_env = None

Exc_Idle ==
    /\ exc_call = None
    /\ exc_pc = "idle"
    /\ exc = None
    /\ exc_env = None

\* raise Cls(args): the constructor runs
Raise ==
    /\ exc_pc = "call"
    /\ exc' = Some(Construct(exc_call))
    /\ exc_pc' = "raised"
    /\ UNCHANGED <<exc_call, exc_env, li_vars, inv_vars, caller_vars>>

\* the boundary catches the error and calls handle_exception(exception)
HandleException ==
    /\ exc_pc = "raised"
    /\ exc_env' = Some(handle_exception(exc[1]))
    /\ exc_pc' = "handled"
    /\ UNCHANGED <<exc_call, exc, li_vars, inv_vars, caller_vars>>

----------------------------------------------------------------------------
(* Several callers translating one error object with handle_exception *)

NumCallers == 2
MaxEdits == 1

Callers == 1 .. NumCallers

\* identity of the dict InvoiceAIException.__init__ stored in self.details
ErrorDetailsRef == 1

\* the error object as it is now: the attributes its constructor set, with
\* self.details being the dict object as it is now
CurrentError ==
    IF IsInvoiceAIException(exc[1])
    THEN [exc[1] EXCEPT !.attrs.details = heap[ErrorDetailsRef]]
    ELSE exc[1]

\* d[key] = value on a dict object
SetItem(d, key, value) ==
    [k \in DOMAIN d \cup {key} |-> IF k = key THEN value ELSE d[k]]

\* an envelope as a reader sees it: the details key followed to its dict
EnvelopeValue(env) ==
    [error |-> env.error, message |-> env.message, details |-> heap[env.details]]

\* an error was raised and is shared by the callers; none has translated it yet
Callers_Init ==
    /\ Exc_Calls(exc_call)
    /\ exc_pc = "shared"
    /\ exc = Some(Construct(exc_call))
    /\ exc_env = None
    /\ heap = IF IsInvoiceAIException(exc[1]) THEN <<exc[1].attrs.details>> ELSE <<>>
    /\ caller_pc = [p \in Callers |-> "ready"]
    /\ caller_env = [p \in Callers |-> None]
    /\ caller_ret = [p \in Callers |-> None]
    /\ edits = [p \in Callers |-> 0]

Callers_Idle ==
    /\ heap = <<>>
    /\ caller_pc = <<>>
    /\ caller_env = <<>>
    /\ caller_ret = <<>>
    /\ edits = <<>>

\* a caller runs handle_exception(exception) on the shared error.  The envelope
\* is a new dict; for an InvoiceAIException its "details" is self.details itself
\* (to_dict returns the attribute, not a copy), for any other error a new dict.
Translate ==
    \E p \in DOMAIN caller_pc :
        /\ caller_pc[p] = "ready"
        /\ LET e == CurrentError
               env == handle_exception(e)
               ref == IF IsInvoiceAIException(e) THEN ErrorDetailsRef
                      ELSE Len(heap) + 1
           IN  /\ heap' = IF IsInvoiceAIException(e) THEN heap
                          ELSE Append(heap, env.details)
               /\ caller_env' = [caller_env EXCEPT ![p] =
                      Some([error |-> env.error, message |-> env.message,
                            details |-> ref])]
               /\ caller_ret' = [caller_ret EXCEPT ![p] = Some(env)]
        /\ caller_pc' = [caller_pc EXCEPT ![p] = "holding"]
        /\ UNCHANGED <<edits, li_vars, exc_vars, inv_vars>>

\* a caller adds a key to the details mapping of the envelope it received:
\* envelope["details"]["request_id"] = ...
AddDetailsKey ==
    \E p \in DOMAIN caller_pc :
        /\ caller_pc[p] = "holding"
        /\ edits[p] < MaxEdits
        /\ heap' = [heap EXCEPT ![caller_env[p][1].details] =
                       SetItem(@, "request_id", "req-" \o ToString(p))]
        /\ edits' = [edits EXCEPT ![p] = @ + 1]
        /\ UNCHANGED <<caller_pc, caller_env, caller_ret, li_vars, exc_vars, inv_vars>>

\* a caller replaces a top-level key of the envelope it received:
\* envelope["message"] = ...
ReplaceEnvelopeKey ==
    \E p \in DOMAIN caller_pc :
        /\ caller_pc[p] = "holding"
        /\ edits[p] < MaxEdits
        /\ caller_env' = [caller_env EXCEPT ![p] =
                              Some([@[1] EXCEPT !.message = "redacted"])]
        /\ edits' = [edits EXCEPT ![p] = @ + 1]
        /\ UNCHANGED <<heap, caller_pc, caller_ret, li_vars, exc_vars, inv_vars>>

----------------------------------------------------------------------------
(* Constructing, serializing, rebuilding and assigning to invoices *)

Date(n) == [type |-> "date", ordinal |-> n]
DateTime(d, sec) == [type |-> "datetime", day |-> d, sec |-> sec]

GoodLine == [description |-> "item", quantity |-> 20, unit_price |-> 10000,
             tax_amount |-> 3000, line_total |-> 23000]
SecondLine == [description |-> "b", quantity |-> 10, unit_price |-> 100,
               line_total |-> 100, unit |-> "kg"]
BadLine == [GoodLine EXCEPT !["line_total"] = 23500]

\* a breakdown whose tax_amount matches no total_tax explored
OddBreakdown == <<[tax_type |-> "VAT", tax_rate |-> 15, taxable_amount |-> 20000,
                   tax_amount |-> 77]>>

InvoiceHead(d) ==
    [invoice_number |-> "INV-1", invoice_date |-> Date(d), vendor |-> [name |-> "V"]]

\* subtotal, total_discount, total_tax (the last two may be left out), and a
\* total_amount up to MaxDelta cents off subtotal - total_discount + total_tax
AmountParts ==
    { [subtotal |-> st] @@ d @@ t
      @@ [total_amount |-> st - Get(d, "total_discount", 0) + Get(t, "total_tax", 0) + dl] :
        st \in {-1, 20000},
        d \in {<<>>} \cup {[total_discount |-> x] : x \in {-1, 2}},
        t \in {<<>>} \cup {[total_tax |-> x] : x \in {-1, 3000}},
        dl \in -MaxDelta .. MaxDelta }

SoundAmounts == [subtotal |-> 20000, total_tax |-> 3000, total_amount |-> 23000]

\* invoice dates around the clock's first day and around the 30-day limit
DateOffsets == {-1, 0, 1} \cup ((MaxFutureDays - 1) .. (MaxFutureDays + MaxDays + 1))

\* optional parts of the mapping, given or left out
EnumParts ==
    {<<>>, [invoice_type |-> PlainStr("credit_note")],
     [currency |-> Member("Currency", "USD")],
     [language_detected |-> PlainStr("klingon")]}

ShapeParts ==
    { c @@ pi @@ it :
        c \in {<<>>, [customer |-> [name |-> "C"]],
               [customer |-> [name |-> "C", tax_id |-> "310"]]},
        pi \in {<<>>, [payment_info |-> <<>>],
                [payment_info |-> [due_date |-> Date(40), payment_terms |-> "Net 30"]]},
        it \in EnumParts }
    \cup
    { n @@ ts @@ pg @@ it :
        n \in {<<>>, [notes |-> ""]},
        ts \in {<<>>, [extraction_timestamp |-> DateTime(-3, 7)]},
        pg \in {<<>>, [page_count |-> 2, confidence_score |-> 95,
                       tax_breakdown |-> OddBreakdown]},
        it \in EnumParts }

Inv_Inputs ==
    \* every combination of amounts, with and without a tax breakdown
    { InvoiceHead(0) @@ [line_items |-> <<GoodLine>>] @@ a @@ tb :
        a \in AmountParts, tb \in {<<>>, [tax_breakdown |-> OddBreakdown]} }
    \* line items: none, one, two, one that does not reconcile
    \cup { InvoiceHead(0) @@ [line_items |-> ls] @@ a :
             ls \in {<<>>, <<GoodLine>>, <<GoodLine, SecondLine>>, <<BadLine>>},
             a \in {SoundAmounts, [SoundAmounts EXCEPT !["total_amount"] = 23002]} }
    \* dates
    \cup { InvoiceHead(d) @@ [line_items |-> <<GoodLine>>] @@ a @@ ts :
             d \in DateOffsets,
             a \in {SoundAmounts, [SoundAmounts EXCEPT !["total_amount"] = 23002]},
             ts \in {<<>>, [extraction_timestamp |-> DateTime(-3, 7)]} }
    \* optional parts
    \cup { InvoiceHead(0) @@ [line_items |-> <<GoodLine, SecondLine>>] @@ SoundAmounts @@ sh :
             sh \in ShapeParts }

\* the inputs of two constructions given the same mapping
Twin_Inputs ==
    { InvoiceHead(d) @@ [line_items |-> <<GoodLine>>] @@ a @@ ts :
        d \in DateOffsets,
        a \in {SoundAmounts, [SoundAmounts EXCEPT !["total_amount"] = 23002]},
        ts \in {<<>>, [extraction_timestamp |-> DateTime(-3, 7)]} }

Inv_InitWith(procs, inputs) ==
    /\ clock = [day |-> 0, sec |-> 0]
    /\ \E in \in inputs : input = [p \in procs |-> in]
    /\ pc = [p \in procs |-> "new"]
    /\ reads = [p \in procs |-> <<>>]
    /\ date_res = [p \in procs |-> None]
    /\ stamp = [p \in procs |-> None]
    /\ inst = [p \in procs |-> None]
    /\ raised = [p \in procs |-> None]
    /\ envelope = [p \in procs |-> None]
    /\ trees = [p \in procs |-> <<>>]
    /\ rebuilt = [p \in procs |-> 0]
    /\ assigned = [p \in procs |-> 0]

Inv_Idle == Inv_InitWith({}, {<<>>})

\* a second passes
TickSecond ==
    /\ clock.sec < MaxSecs
    /\ clock' = [clock EXCEPT !.sec = @ + 1]
    /\ UNCHANGED <<input, pc, reads, date_res, stamp, inst, raised, envelope,
                   trees, rebuilt, assigned, li_vars, exc_vars, caller_vars>>

\* midnight passes
Midnight ==
    /\ clock.day < MaxDays
    /\ clock' = [day |-> clock.day + 1, sec |-> 0]
    /\ UNCHANGED <<input, pc, reads, date_res, stamp, inst, raised, envelope,
                   trees, rebuilt, assigned, li_vars, exc_vars, caller_vars>>

\* the Invoice constructor up to validate_date's test `v > date.today()` (line 218)
ValidateDateFirstRead ==
    \E p \in DOMAIN pc :
    /\ pc[p] = "new"
    /\ reads' = [reads EXCEPT ![p] = Append(@, date_today(clock).ordinal)]
    /\ IF IsFuture(input[p]["invoice_date"], clock)
       THEN /\ pc' = [pc EXCEPT ![p] = "date2"]
            /\ UNCHANGED date_res
       ELSE /\ pc' = [pc EXCEPT ![p] = "rest"]
            /\ date_res' = [date_res EXCEPT ![p] = Some(Returns(input[p]["invoice_date"]))]
    /\ UNCHANGED <<clock, input, stamp, inst, raised, envelope, trees, rebuilt,
                   assigned, li_vars, exc_vars, caller_vars>>

\* validate_date's test `(v - date.today()).days > 30` (lines 219-221)
ValidateDateSecondRead ==
    \E p \in DOMAIN pc :
    /\ pc[p] = "date2"
    /\ reads' = [reads EXCEPT ![p] = Append(@, date_today(clock).ordinal)]
    /\ date_res' = [date_res EXCEPT ![p] =
                       Some(validate_date_far(input[p]["invoice_date"], clock))]
    /\ pc' = [pc EXCEPT ![p] = "rest"]
    /\ UNCHANGED <<clock, input, stamp, inst, raised, envelope, trees, rebuilt,
                   assigned, li_vars, exc_vars, caller_vars>>

\* the rest of the Invoice constructor: the remaining fields, validate_total, the
\* timestamp's default_factory; the instance is returned or the error raised
FinishConstruction ==
    \E p \in DOMAIN pc :
    /\ pc[p] = "rest"
    /\ LET r == NewInvoice(input[p], date_res[p][1], clock)
       IN  IF r.ok
           THEN /\ inst' = [inst EXCEPT ![p] = Some(r.fields)]
                /\ pc' = [pc EXCEPT ![p] = "done"]
                /\ UNCHANGED raised
           ELSE /\ raised' = [raised EXCEPT ![p] = Some(r.error)]
                /\ pc' = [pc EXCEPT ![p] = "failed"]
                /\ UNCHANGED inst
    /\ stamp' = [stamp EXCEPT ![p] =
                    IF "extraction_timestamp" \in DOMAIN input[p]
                    THEN None ELSE Some(datetime_now(clock))]
    /\ UNCHANGED <<clock, input, reads, date_res, envelope, trees, rebuilt,
                   assigned, li_vars, exc_vars, caller_vars>>

\* the caller catches the constructor's error and hands it to handle_exception
ReportFailure ==
    \E p \in DOMAIN pc :
    /\ pc[p] = "failed"
    /\ envelope' = [envelope EXCEPT ![p] = Some(handle_exception(raised[p][1]))]
    /\ pc' = [pc EXCEPT ![p] = "reported"]
    /\ UNCHANGED <<clock, input, reads, date_res, stamp, inst, raised, trees,
                   rebuilt, assigned, li_vars, exc_vars, caller_vars>>

\* inv.to_dict(), once for the instance as built and once for the rebuilt one
ToDict ==
    \E p \in DOMAIN pc :
    /\ pc[p] = "done"
    /\ Len(trees[p]) = rebuilt[p]
    /\ trees' = [trees EXCEPT ![p] = Append(@, Invoice_to_dict(inst[p][1]))]
    /\ UNCHANGED <<clock, input, pc, reads, date_res, stamp, inst, raised, envelope,
                   rebuilt, assigned, li_vars, exc_vars, caller_vars>>

\* the Invoice constructor on the tree: a new construction whose input is the serialized tree
Rebuild ==
    \E p \in DOMAIN pc :
    /\ pc[p] = "done"
    /\ rebuilt[p] < MaxRebuilds
    /\ Len(trees[p]) = rebuilt[p] + 1
    /\ input' = [input EXCEPT ![p] = trees[p][Len(trees[p])]]
    /\ pc' = [pc EXCEPT ![p] = "new"]
    /\ rebuilt' = [rebuilt EXCEPT ![p] = @ + 1]
    /\ reads' = [reads EXCEPT ![p] = <<>>]
    /\ date_res' = [date_res EXCEPT ![p] = None]
    /\ stamp' = [stamp EXCEPT ![p] = None]
    /\ inst' = [inst EXCEPT ![p] = None]
    /\ UNCHANGED <<clock, raised, envelope, trees, assigned, li_vars, exc_vars, caller_vars>>

\* the assignments explored
AssignedAmounts == {99999}
AssignedFields == {"subtotal", "total_amount"}

\* inv.<field> = v: BaseModel.__setattr__ with neither frozen nor
\* validate_assignment configured stores the value as given
SetAttr ==
    \E p \in DOMAIN pc, f \in AssignedFields, v \in AssignedAmounts :
    /\ pc[p] = "done"
    /\ assigned[p] < MaxAssigns
    /\ inst' = [inst EXCEPT ![p] = Some([@[1] EXCEPT ![f] = v])]
    /\ assigned' = [assigned EXCEPT ![p] = @ + 1]
    /\ UNCHANGED <<clock, input, pc, reads, date_res, stamp, raised, envelope, trees,
                   rebuilt, li_vars, exc_vars, caller_vars>>

\* inv.line_items[0].line_total = v
SetLineAttr ==
    \E p \in DOMAIN pc, v \in AssignedAmounts :
    /\ pc[p] = "done"
    /\ assigned[p] < MaxAssigns
    /\ inst' = [inst EXCEPT ![p] =
                  Some([@[1] EXCEPT !["line_items"][1]["line_total"] = v])]
    /\ assigned' = [assigned EXCEPT ![p] = @ + 1]
    /\ UNCHANGED <<clock, input, pc, reads, date_res, stamp, raised, envelope, trees,
                   rebuilt, li_vars, exc_vars, caller_vars>>

InitLineItem == LI_Init /\ Exc_Idle /\ Inv_Idle /\ Callers_Idle
NextLineItem == ConstructLineItem
SpecLineItem == InitLineItem /\ [][NextLineItem]_vars

InitErrors == Exc_Init /\ LI_Idle /\ Inv_Idle /\ Callers_Idle
NextErrors == Raise \/ HandleException
SpecErrors == InitErrors /\ [][NextErrors]_vars

\* one invoice: built, serialized, rebuilt from its tree, assigned to
Init == LI_Idle /\ Exc_Idle /\ Inv_InitWith({1}, Inv_Inputs) /\ Callers_Idle
Next ==
    \/ TickSecond
    \/ Midnight
    \/ ValidateDateFirstRead
    \/ ValidateDateSecondRead
    \/ FinishConstruction
    \/ ReportFailure
    \/ ToDict
    \/ Rebuild
    \/ SetAttr
    \/ SetLineAttr
Spec == Init /\ [][Next]_vars

\* two constructions given the same mapping, interleaved with each other and the clock
InitTwins == LI_Idle /\ Exc_Idle /\ Inv_InitWith({1, 2}, Twin_Inputs) /\ Callers_Idle
NextTwins ==
    \/ TickSecond
    \/ Midnight
    \/ ValidateDateFirstRead
    \/ ValidateDateSecondRead
    \/ FinishConstruction
SpecTwins == InitTwins /\ [][NextTwins]_vars

\* one raised error translated by several callers, who then use their envelopes
InitCallers == Callers_Init /\ LI_Idle /\ Inv_Idle
NextCallers == Translate \/ AddDetailsKey \/ ReplaceEnvelopeKey
SpecCallers == InitCallers /\ [][NextCallers]_vars

----------------------------------------------------------------------------
(* C1: for every line-item input whose fields are inside their ranges,     *)
(* construction succeeds exactly when line_total is within 0.01 of         *)
(* quantity*unit_price - discount + tax_amount (a difference of exactly    *)
(* 0.01 accepted, anything larger rejected), and the rejection message     *)
(* names the expected and the actual value.                                *)

LI_RangesHold(in) ==
    /\ in["quantity"] > 0
    /\ Get(in, "discount", 0) >= 0
    /\ Get(in, "tax_amount", 0) >= 0

LI_Outcome == li_result[1]

C1_LineTotalIff ==
    (li_pc = "done" /\ LI_RangesHold(li_input)) =>
        LET expected == LI_ExpectedMills(li_input)
            diff == Abs(Mills(li_input["line_total"]) - expected)
        IN  /\ LI_Outcome.ok <=> diff <= 10
            /\ ~LI_Outcome.ok =>
                 LI_Outcome.errors =
                   {[loc |-> "line_total",
                     msg |-> "Line total mismatch: expected " \o DecStr(expected, 3)
                             \o ", got " \o DecStr(li_input["line_total"], 2)]}

\* quantity 2, unit_price 100.00, tax 30.00: line_total 235.00 was rejected
C1_WitnessExample ==
    /\ li_pc = "done"
    /\ LI_RangesHold(li_input)
    /\ li_input["quantity"] = 20 /\ li_input["unit_price"] = 10000
    /\ Get(li_input, "tax_amount", 0) = 3000 /\ Get(li_input, "discount", 0) = 0
    /\ li_input["line_total"] = 23500
    /\ ~LI_Outcome.ok

\* an input exactly 0.01 off was accepted
C1_Witness ==
    /\ li_pc = "done"
    /\ LI_RangesHold(li_input)
    /\ Abs(Mills(li_input["line_total"]) - LI_ExpectedMills(li_input)) = 10
    /\ LI_Outcome.ok

----------------------------------------------------------------------------
(* Vocabulary of the invoice claims *)

Finished(p) == pc[p] \in {"done", "failed", "reported"}
Succeeded(p) == pc[p] = "done"
DateRejected(p) == date_res[p] # None /\ ~date_res[p][1].ok

\* a line-item mapping that is valid by its own rules: ranges and reconciliation
LineOK(li) ==
    /\ LI_RangesHold(li)
    /\ Get(li, "tax_rate", 0) >= 0
    /\ Abs(Mills(li["line_total"]) - LI_ExpectedMills(li)) <= 10

\* every field of the mapping satisfies its own type and range constraint
FieldsInRange(in) ==
    /\ in["subtotal"] >= 0 /\ in["total_amount"] >= 0
    /\ Get(in, "total_discount", 0) >= 0 /\ Get(in, "total_tax", 0) >= 0
    /\ Len(in["line_items"]) >= 1
    /\ \A i \in DOMAIN in["line_items"] : LineOK(in["line_items"][i])
    /\ "invoice_type" \in DOMAIN in => in["invoice_type"].value \in InvoiceType
    /\ "currency" \in DOMAIN in => in["currency"].value \in Currency
    /\ "language_detected" \in DOMAIN in => in["language_detected"].value \in Language
    /\ Get(in, "confidence_score", 0) \in 0 .. 100

\* |total_amount - (subtotal - total_discount + total_tax)| in cents, omitted parts 0
TotalGap(in) ==
    Abs(in["total_amount"]
        - (in["subtotal"] - Get(in, "total_discount", 0) + Get(in, "total_tax", 0)))

----------------------------------------------------------------------------
(* C2: for every invoice input whose fields satisfy their constraints (the *)
(* four amounts >= 0, at least one valid line item, the date inside the    *)
(* window), construction succeeds exactly when total_amount is within 0.01 *)
(* of subtotal - total_discount + total_tax, omitted total_discount and    *)
(* total_tax counting as 0; no other cross-field relation (tax_breakdown   *)
(* against total_tax) rejects.                                             *)

C2_TotalIff ==
    \A p \in DOMAIN pc :
        (Finished(p) /\ FieldsInRange(input[p]) /\ ~DateRejected(p)) =>
            (Succeeded(p) <=> TotalGap(input[p]) <= 1)

\* an invoice exactly 0.01 off, its discount left out, its tax breakdown at odds
\* with total_tax, was accepted
C2_Witness ==
    \E p \in DOMAIN pc :
        /\ Succeeded(p) /\ rebuilt[p] = 0
        /\ FieldsInRange(input[p])
        /\ TotalGap(input[p]) = 1
        /\ "total_discount" \notin DOMAIN input[p]
        /\ "tax_breakdown" \in DOMAIN input[p]
        /\ input[p]["tax_breakdown"][1]["tax_amount"] # Get(input[p], "total_tax", 0)

----------------------------------------------------------------------------
(* C3: with d = invoice_date minus the current date when validation        *)
(* begins, in days, the date check rejects whenever d > 30 and never when  *)
(* d <= 30, also when the date advances between the validator's two reads  *)
(* of the clock.                                                           *)

\* d, against the date the validator read first
DaysAheadAtStart(p) == input[p]["invoice_date"].ordinal - reads[p][1]

C3_DateWindow ==
    \A p \in DOMAIN pc :
        Finished(p) => (DateRejected(p) <=> DaysAheadAtStart(p) > 30)

----------------------------------------------------------------------------
(* C4: when construction is rejected by a reconciliation check or by the   *)
(* date check, the failure is the taxonomy's ValidationError: handing it   *)
(* to handle_exception yields error = "VALIDATION_ERROR", not              *)
(* "INTERNAL_ERROR".                                                       *)

RejectedByChecksOnly(p) ==
    /\ raised[p] # None
    /\ \A e \in raised[p][1].attrs.errors :
          \/ e.loc = "invoice_date"
          \/ e.loc = "total_amount" /\ e.msg # "field constraint"

C4_ValidationKind ==
    \A p \in DOMAIN pc :
        (pc[p] = "reported" /\ RejectedByChecksOnly(p)) =>
            envelope[p][1].error = "VALIDATION_ERROR"

----------------------------------------------------------------------------
(* C5: Invoice and InvoiceLineItem are immutable after construction: no    *)
(* operation on an instance changes its fields, so every existing Invoice  *)
(* has total_amount within 0.01 of subtotal - total_discount + total_tax   *)
(* and every existing line item reconciles.                                *)

InstanceReconciles(f) ==
    /\ Abs(f["total_amount"] - (f["subtotal"] - f["total_discount"] + f["total_tax"])) <= 1
    /\ \A i \in DOMAIN f["line_items"] :
          LET li == f["line_items"][i]
          IN  Abs(Mills(li["line_total"])
                  - (li["quantity"] * li["unit_price"]
                     - Mills(li["discount"]) + Mills(li["tax_amount"]))) <= 10

C5_Immutable ==
    \A p \in DOMAIN pc : inst[p] # None => InstanceReconciles(inst[p][1])

----------------------------------------------------------------------------
(* C8: serialization round-trips: for every validly constructed Invoice    *)
(* inv, an Invoice built from inv.to_dict() succeeds and its to_dict() equals         *)
(* inv.to_dict() field for field, the fields that took a default and the   *)
(* extraction timestamp included.                                          *)

\* Python's == on two trees: an Enum member with a str mixin equals its value
PyEq(t1, t2) ==
    /\ DOMAIN t1 = DOMAIN t2
    /\ \A f \in DOMAIN t1 :
          IF f \in DOMAIN Inv_Enums THEN t1[f].value = t2[f].value ELSE t1[f] = t2[f]

C8_RoundTrip ==
    \A p \in DOMAIN pc :
        assigned[p] = 0 =>
            /\ (rebuilt[p] >= 1 /\ Finished(p)) => Succeeded(p)
            /\ \A i \in 2 .. Len(trees[p]) : PyEq(trees[p][i - 1], trees[p][i])

\* an invoice that took its defaults and a stamped timestamp was rebuilt on a later
\* day and serialized again
C8_Witness ==
    \E p \in DOMAIN pc :
        /\ assigned[p] = 0 /\ Len(trees[p]) = 2
        /\ trees[p][1]["invoice_type"] = Member("InvoiceType", "standard")
        /\ trees[p][1]["total_discount"] = 0
        /\ "customer" \notin DOMAIN trees[p][1]
        /\ trees[p][1]["extraction_timestamp"].day = 0
        /\ reads[p] = <<1>>

----------------------------------------------------------------------------
(* C9: the tree returned by Invoice.to_dict() has no key for an absent     *)
(* optional field at any level and holds only primitives, mappings and     *)
(* sequences: every date or timestamp field (invoice_date,                 *)
(* extraction_timestamp, payment_info.due_date) is an ISO-8601 string.     *)

TreeOmitsAbsent(t, f) ==
    /\ \A k \in Inv_Optional : k \in DOMAIN t <=> f[k] # None
    /\ "tax_id" \in DOMAIN t["vendor"] <=> f["vendor"]["tax_id"] # None
    /\ \A i \in DOMAIN t["line_items"] :
          "unit" \in DOMAIN t["line_items"][i] <=> f["line_items"][i]["unit"] # None

TreeDatesAreText(t) ==
    /\ t["invoice_date"].type = "str"
    /\ t["extraction_timestamp"].type = "str"
    /\ ("payment_info" \in DOMAIN t /\ "due_date" \in DOMAIN t["payment_info"])
          => t["payment_info"]["due_date"].type = "str"

C9_PrimitiveTree ==
    \A p \in DOMAIN pc :
        (pc[p] = "done" /\ assigned[p] = 0 /\ Len(trees[p]) = rebuilt[p] + 1) =>
            LET t == trees[p][Len(trees[p])]
            IN  TreeOmitsAbsent(t, inst[p][1]) /\ TreeDatesAreText(t)

----------------------------------------------------------------------------
(* C10: Invoice construction is a pure function of its input mapping: two  *)
(* constructions given the same input, at any two moments and in any       *)
(* interleaving, both succeed or both fail, and when they succeed yield    *)
(* equal Invoice values.                                                   *)

SameOutcome(p, q) ==
    /\ pc[p] = pc[q]
    /\ inst[p] = inst[q]
    /\ raised[p] = raised[q]

C10_PureOfInput ==
    \A p, q \in DOMAIN pc :
        (Finished(p) /\ Finished(q) /\ input[p] = input[q]) => SameOutcome(p, q)

(* C10 as amended: construction is a function of its input mapping and of  *)
(* the clock values it reads: two constructions given the same input that  *)
(* read the same dates in validate_date and, when the input carries no     *)
(* extraction_timestamp, the same instant in the timestamp's default       *)
(* factory, both succeed or both fail and, succeeding, yield equal values. *)

C10_PureOfInputAndClock ==
    \A p, q \in DOMAIN pc :
        (/\ Finished(p) /\ Finished(q)
         /\ input[p] = input[q]
         /\ reads[p] = reads[q]
         /\ stamp[p] = stamp[q]) => SameOutcome(p, q)

\* two constructions of one future-dated input, run at different seconds of the same
\* day, read the same dates and agreed
C10_Witness ==
    /\ DOMAIN pc = {1, 2}
    /\ Succeeded(1) /\ Succeeded(2)
    /\ reads[1] = <<0, 0>> /\ reads[2] = <<0, 0>>
    /\ input[1]["invoice_date"].ordinal = MaxFutureDays
    /\ "extraction_timestamp" \in DOMAIN input[1]
    /\ clock.sec > 0
    /\ inst[1] = inst[2]

----------------------------------------------------------------------------
(* C6: for each of the 20 error kinds and every value of its constructor   *)
(* arguments, handle_exception returns an envelope with exactly the keys   *)
(* error, message, details; error is the kind's fixed code, message the    *)
(* kind's message, and details has exactly the kind's documented keys,     *)
(* also when an optional argument is omitted.  LLMTimeoutError(30) gives   *)
(* LLM_TIMEOUT, a message ending in "30 seconds", {timeout_seconds: 30}.   *)

DocumentedCode ==
    [FileProcessingError |-> "FILE_PROCESSING_ERROR",
     UnsupportedFileTypeError |-> "UNSUPPORTED_FILE_TYPE",
     OCRError |-> "OCR_ERROR",
     EmptyFileError |-> "EMPTY_FILE",
     LLMExtractionError |-> "LLM_EXTRACTION_ERROR",
     LLMTimeoutError |-> "LLM_TIMEOUT",
     LLMRateLimitError |-> "LLM_RATE_LIMIT",
     ValidationError |-> "VALIDATION_ERROR",
     LowConfidenceError |-> "LOW_CONFIDENCE",
     ERPConnectionError |-> "ERP_CONNECTION_ERROR",
     ERPAuthenticationError |-> "ERP_AUTH_ERROR",
     ERPDataFormatError |-> "ERP_DATA_FORMAT_ERROR",
     ERPTimeoutError |-> "ERP_TIMEOUT",
     DuplicateInvoiceError |-> "DUPLICATE_INVOICE",
     CustomerNotFoundError |-> "CUSTOMER_NOT_FOUND",
     ConfigurationError |-> "CONFIGURATION_ERROR",
     VendorMappingError |-> "VENDOR_MAPPING_ERROR",
     AuthenticationError |-> "AUTHENTICATION_ERROR",
     AuthorizationError |-> "AUTHORIZATION_ERROR",
     MaxRetriesExceededError |-> "MAX_RETRIES_EXCEEDED"]

DocumentedKeys ==
    [FileProcessingError |-> {"filename"},
     UnsupportedFileTypeError |-> {"file_type", "supported_types"},
     OCRError |-> {"image_path"},
     EmptyFileError |-> {"filename"},
     LLMExtractionError |-> {"model"},
     LLMTimeoutError |-> {"timeout_seconds"},
     LLMRateLimitError |-> {"retry_after_seconds"},
     ValidationError |-> {"field", "validation_errors"},
     LowConfidenceError |-> {"confidence_score", "threshold"},
     ERPConnectionError |-> {"erp_system"},
     ERPAuthenticationError |-> {"erp_system"},
     ERPDataFormatError |-> {"expected_format"},
     ERPTimeoutError |-> {"erp_system", "timeout_seconds"},
     DuplicateInvoiceError |-> {"invoice_number", "existing_id"},
     CustomerNotFoundError |-> {"customer_id"},
     ConfigurationError |-> {"config_file"},
     VendorMappingError |-> {"vendor_name", "customer_id"},
     AuthenticationError |-> {},
     AuthorizationError |-> {"required_permission"},
     MaxRetriesExceededError |-> {"operation", "max_retries"}]

\* the message a caller gave, for the kinds whose constructor takes one
CallGaveMessage == "message" \in DOMAIN exc_call.args

C6_KindEnvelope ==
    (exc_pc = "handled" /\ exc_call.cls \in DOMAIN DocumentedCode) =>
        LET env == exc_env[1] IN
        /\ DOMAIN env = {"error", "message", "details"}
        /\ env.error = DocumentedCode[exc_call.cls]
        /\ DOMAIN env.details = DocumentedKeys[exc_call.cls]
        /\ env.message = exc[1].attrs.message
        /\ CallGaveMessage => env.message = exc_call.args.message
        /\ exc_call = Call("LLMTimeoutError", [timeout_seconds |-> 30]) =>
             env = [error |-> "LLM_TIMEOUT",
                    message |-> "LLM request timed out after 30 seconds",
                    details |-> [timeout_seconds |-> 30]]
        /\ exc_call.cls = "FileProcessingError" =>
             env.details.filename = exc_call.args.filename
        /\ exc_call.cls = "LowConfidenceError" =>
             /\ env.details.confidence_score = exc_call.args.confidence_score
             /\ env.details.threshold = exc_call.args.threshold
        /\ exc_call.cls = "ERPTimeoutError" =>
             /\ env.details.erp_system = exc_call.args.erp_system
             /\ env.details.timeout_seconds = exc_call.args.timeout_seconds

\* an error raised with its optional argument omitted was translated, its key present
C6_Witness ==
    /\ exc_pc = "handled"
    /\ exc_call.cls = "FileProcessingError"
    /\ exc_call.args.filename = None
    /\ exc_env[1].details = [filename |-> None]

----------------------------------------------------------------------------
(* C7: handle_exception is total.  For every error that is not of the      *)
(* taxonomy (not an InvoiceAIException) it returns, without raising,       *)
(* {error: "INTERNAL_ERROR", message: str(error), details:                 *)
(* {exception_type: type name}}; for every input, known or unknown,        *)
(* one envelope with a string error code is produced.                      *)

\* str() of the errors raised from outside the taxonomy, from the call's arguments
ForeignStr(c) ==
    IF c.cls = "pydantic.ValidationError"
    THEN ToString(Cardinality(c.args.errors)) \o " validation error(s) for Invoice"
    ELSE CASE Len(c.args.args) = 0 -> ""
           [] Len(c.args.args) = 1 /\ c.args.name = "KeyError" -> "'x'"
           [] Len(c.args.args) = 1 /\ c.args.name # "KeyError" -> "x"
           [] OTHER -> "('x', 'y')"

ForeignName(c) ==
    IF c.cls = "pydantic.ValidationError" THEN "ValidationError" ELSE c.args.name

ErrorCodes ==
    {DocumentedCode[k] : k \in DOMAIN DocumentedCode}
    \cup {"GENERAL_ERROR", "CUSTOM", "INTERNAL_ERROR"}

IsTaxonomyCall(c) == c.cls \in DOMAIN DocumentedCode \cup {"InvoiceAIException"}

----------------------------------------------------------------------------
(* C11: handle_exception is pure and stateless under concurrent use.  For  *)
(* any number of callers translating the same error value in any           *)
(* interleaving, every call returns the same envelope, no call changes the *)
(* error's code, message or details, and nothing one caller does to the    *)
(* envelope it received (such as adding a key to its details mapping)      *)
(* changes the error or the envelope seen by another caller.               *)

Holding(p) == caller_pc[p] = "holding"

\* the error still has the code, message and details its constructor set
ErrorUntouched == CurrentError = exc[1]

C11_Stateless ==
    /\ ErrorUntouched
    /\ \A p \in DOMAIN caller_pc :
          Holding(p) =>
             /\ caller_ret[p][1] = handle_exception(exc[1])
             /\ edits[p] = 0 => EnvelopeValue(caller_env[p][1]) = caller_ret[p][1]

====
